---- MODULE Spec2Model ----
(***************************************************************************)
(* Model of src/main.py: the SQLite tables games, users, picks and         *)
(* achievements, and the handlers that read and write them                 *)
(* (upsert_games, update_scores_with_finals, make_prediction, profile,     *)
(* leaderboard).  A table is the sequence of its rows in rowid order, so   *)
(* that a duplicate row is representable and a UNIQUE constraint is        *)
(* something the handlers have to respect, not a property of the type.     *)
(***************************************************************************)
EXTENDS Integers, Sequences, FiniteSets, TLC

\* SQL NULL / Python None, for every nullable column and form value.
NULL == -1

\* ------------------------------------------------------------------------
\* Bounds of the model (not program constants).
\* ------------------------------------------------------------------------
MaxRows == 3       \* rows of the games table
MaxBatch == 2      \* records of one feed batch handed to upsert_games
MaxEvents == 1     \* events of one scoreboard response
MaxTime == 3       \* last instant of the clock behind datetime.utcnow()

\* ------------------------------------------------------------------------
\* Program constants.
\* ------------------------------------------------------------------------
TopLimit == 15          \* LIMIT 15 of profile's top_game_ids query
Streak5Threshold == 5   \* current_streak >= 5
Win80Rate == 80         \* win_rate >= 80
Win80MinPicks == 10     \* total_picks >= 10

\* Usernames are strings; a string is the sequence of its character codes.
alice == <<97, 108, 105, 99, 101>>
Bob == <<66, 111, 98>>
NoUser == <<>>

VARIABLES
    games,          \* table games
    users,          \* table users
    picks,          \* table picks
    achievements,   \* table achievements
    now,            \* the clock read by datetime.utcnow()
    board,          \* rows handed to leaderboard.html by the last leaderboard()
    prof,           \* values handed to profile.html by the last profile()
    last,           \* the request handled last and its arguments
    line_at_pick    \* history: games.over_under as it was when picks[i] was inserted

vars == <<games, users, picks, achievements, now, board, prof, last, line_at_pick>>

\* ------------------------------------------------------------------------
\* Helpers on tables.
\* ------------------------------------------------------------------------
Idx(tbl) == 1..Len(tbl)

\* Rows of games with a given key.  NULL never equals NULL in SQL, so a NULL
\* key matches no row, in ON CONFLICT(game_id), in WHERE game_id=? and in JOIN.
GameRowsOf(tbl, gid) == {i \in Idx(tbl) : gid # NULL /\ tbl[i].game_id = gid}

NoRequest ==
    [op |-> "none", user |-> NoUser, game_id |-> NULL, winner |-> "",
     total |-> "", at |-> 0, batch |-> <<>>]

NoProfile ==
    [user |-> NoUser, win_rate |-> 0, current_streak |-> 0, total_picks |-> 0,
     wins |-> 0, badges |-> <<>>]

\* ------------------------------------------------------------------------
\* upsert_games
\* ------------------------------------------------------------------------
NewGameRow(g) ==
    [game_id |-> g.game_id, short_name |-> g.short_name,
     start_utc |-> g.start_utc, over_under |-> g.over_under,
     final_home_score |-> NULL, final_away_score |-> NULL, is_final |-> FALSE]

\* INSERT OR REPLACE instead of ON CONFLICT DO UPDATE: the conflicting row is
\* deleted and the new one carries the column defaults.
UpsertOneReplace(tbl, g) ==
    IF GameRowsOf(tbl, g.game_id) = {}
    THEN Append(tbl, NewGameRow(g))
    ELSE [i \in Idx(tbl) |->
            IF i \in GameRowsOf(tbl, g.game_id) THEN NewGameRow(g) ELSE tbl[i]]

\* One INSERT ... ON CONFLICT(game_id) DO UPDATE SET ... statement.
\* short_name stands for the five text columns short_name, home_id, home_name,
\* away_id, away_name, which the statement treats alike.
UpsertOne(tbl, g) ==
    IF GameRowsOf(tbl, g.game_id) = {}
    THEN Append(tbl, NewGameRow(g))
    ELSE [i \in Idx(tbl) |->
            IF i \in GameRowsOf(tbl, g.game_id)
            THEN [tbl[i] EXCEPT !.short_name = g.short_name,
                                !.start_utc = g.start_utc,
                                !.over_under = g.over_under]
            ELSE tbl[i]]

\* The for loop of upsert_games over the batch.
RECURSIVE UpsertGames(_, _)
UpsertGames(tbl, batch) ==
    IF batch = <<>> THEN tbl
    ELSE UpsertGames(UpsertOne(tbl, Head(batch)), Tail(batch))

BatchIds(batch) == {batch[i].game_id : i \in Idx(batch)}

upsert_games(batch) ==
    /\ Len(UpsertGames(games, batch)) <= MaxRows
    /\ games' = UpsertGames(games, batch)
    /\ last' = [NoRequest EXCEPT !.op = "upsert_games", !.at = now, !.batch = batch]
    /\ UNCHANGED <<users, picks, achievements, now, board, prof, line_at_pick>>

\* ------------------------------------------------------------------------
\* update_scores_with_finals
\* ------------------------------------------------------------------------
\* The operation is the function itself: admin_update_scores, its only caller,
\* stops at the undefined name next_saturday before it reaches the call.
\* UPDATE games SET final_home_score=?, final_away_score=?, is_final=?
\* WHERE game_id=?
ApplyFinal(tbl, ev) ==
    [i \in Idx(tbl) |->
        IF i \in GameRowsOf(tbl, ev.gid)
        THEN [tbl[i] EXCEPT !.final_home_score = ev.home_score,
                            !.final_away_score = ev.away_score,
                            !.is_final = ev.completed]
        ELSE tbl[i]]

RECURSIVE ApplyFinals(_, _)
ApplyFinals(tbl, events) ==
    IF events = <<>> THEN tbl
    ELSE ApplyFinals(ApplyFinal(tbl, Head(events)), Tail(events))

update_scores_with_finals(events) ==
    /\ games' = ApplyFinals(games, events)
    /\ last' = [NoRequest EXCEPT !.op = "update_scores_with_finals", !.at = now]
    /\ UNCHANGED <<users, picks, achievements, now, board, prof, line_at_pick>>

\* ------------------------------------------------------------------------
\* Input sets.
\* ------------------------------------------------------------------------
SeqsUpTo(S, n) == UNION {[1..k -> S] : k \in 0..n}

GameRecords(ids, names, starts, lines) ==
    [game_id : ids, short_name : names, start_utc : starts, over_under : lines]

Events(ids, homes, aways, flags) ==
    [gid : ids, home_score : homes, away_score : aways, completed : flags]

\* ------------------------------------------------------------------------
\* Start of the program: init_db() has created the empty tables.
\* ------------------------------------------------------------------------
EmptyDb ==
    /\ games = <<>>
    /\ users = <<>>
    /\ picks = <<>>
    /\ achievements = <<>>
    /\ board = <<>>
    /\ prof = NoProfile
    /\ last = NoRequest
    /\ line_at_pick = <<>>

\* ------------------------------------------------------------------------
\* SpecCatalog: the game catalog under ingestion and result application.
\* ------------------------------------------------------------------------
CatRecords == GameRecords({NULL, 1}, {1}, {1}, {1, 2})
CatEvents == Events({1}, {0, 1}, {0, 1}, BOOLEAN) \cup Events({NULL}, {0}, {0}, {TRUE})

InitCatalog ==
    /\ EmptyDb
    /\ now = 0

Ingest == \E batch \in SeqsUpTo(CatRecords, MaxBatch) : upsert_games(batch)

ApplyResults == \E events \in SeqsUpTo(CatEvents, MaxEvents) : update_scores_with_finals(events)

NextCatalog == Ingest \/ ApplyResults

SpecCatalog == InitCatalog /\ [][NextCatalog]_vars

\* ------------------------------------------------------------------------
\* Claims on the catalog.
\* ------------------------------------------------------------------------
FinalFields(row) == <<row.final_home_score, row.final_away_score, row.is_final>>

\* C3: once a game's finalized flag is true it never becomes false again and
\* its final home and away scores never change afterwards, whatever results
\* and batches are applied.  (Rows are never deleted, so index i is one game.)
FinalizedIsOneWay ==
    [][\A i \in Idx(games) :
          games[i].is_final => FinalFields(games'[i]) = FinalFields(games[i])]_vars

\* C4: upsert_games never changes final_home_score, final_away_score or
\* is_final of a game already in the catalog; a step that changes them is a
\* step of update_scores_with_finals.
UpsertKeepsFinals ==
    [][/\ last'.op = "upsert_games" =>
            \A i \in Idx(games) : FinalFields(games'[i]) = FinalFields(games[i])
       /\ (\E i \in Idx(games) : FinalFields(games'[i]) # FinalFields(games[i]))
            => last'.op = "update_scores_with_finals"]_vars

\* A re-fetch of a game whose result was recorded has been merged.
UpsertKeepsFinalsWitness ==
    /\ last.op = "upsert_games"
    /\ \E i \in Idx(games) :
          /\ games[i].is_final
          /\ games[i].final_home_score # NULL
          /\ games[i].game_id \in BatchIds(last.batch)

\* C5: for every batch, records without identifier included, and every
\* catalog, upsert_games applied twice to the batch leaves the catalog as
\* one application does.
UpsertIdempotent ==
    [][(/\ last.op = "upsert_games"
        /\ last'.op = "upsert_games"
        /\ last'.batch = last.batch) => games' = games]_vars

\* ------------------------------------------------------------------------
\* make_prediction
\* ------------------------------------------------------------------------
\* INSERT OR IGNORE INTO users (username, join_date): username is UNIQUE.
InsertUser(tbl, user, at) ==
    IF \E i \in Idx(tbl) : tbl[i].username = user
    THEN tbl
    ELSE Append(tbl, [username |-> user, join_date |-> at])

PickRowsOf(tbl, user, gid) ==
    {i \in Idx(tbl) : tbl[i].user = user /\ tbl[i].game_id = gid}

\* INSERT INTO picks ...: UNIQUE(user, game_id) raises sqlite3.IntegrityError
\* on a second row of the pair, and the handler passes on it.
InsertPick(tbl, row) ==
    IF PickRowsOf(tbl, row.user, row.game_id) # {}
    THEN tbl
    ELSE Append(tbl, row)

\* History only: the over/under line of the game at the time of the insert.
LineNow(tbl, gid) ==
    IF GameRowsOf(tbl, gid) = {}
    THEN [known |-> FALSE, line |-> NULL]
    ELSE [known |-> TRUE, line |-> tbl[CHOOSE i \in GameRowsOf(tbl, gid) : TRUE].over_under]

\* Each request reads datetime.utcnow() later than the one before it.
make_prediction(user, game_id, winner, pick_total) ==
    /\ now < MaxTime
    /\ users' = InsertUser(users, user, now)
    /\ picks' = InsertPick(picks, [user |-> user, game_id |-> game_id,
                                   pick_winner |-> winner, pick_total |-> pick_total,
                                   made_at |-> now])
    /\ line_at_pick' = IF Len(picks') > Len(picks)
                       THEN Append(line_at_pick, LineNow(games, game_id))
                       ELSE line_at_pick
    /\ now' = now + 1
    /\ last' = [NoRequest EXCEPT !.op = "make_prediction", !.user = user,
                                 !.game_id = game_id, !.winner = winner,
                                 !.total = pick_total, !.at = now]
    /\ UNCHANGED <<games, achievements, board, prof>>

\* Time passes between requests.
Tick(until) ==
    /\ now < until
    /\ now' = now + 1
    /\ UNCHANGED <<games, users, picks, achievements, board, prof, last, line_at_pick>>

\* ------------------------------------------------------------------------
\* How the two read paths judge a pick against a final game.
\* ------------------------------------------------------------------------
OrZero(x) == IF x = NULL THEN 0 ELSE x

\* profile: actual_winner, and ou_result against (over_under or 0).
ProfileWinner(home, away) == IF home > away THEN "home" ELSE "away"

ProfileOuResult(home, away, line) ==
    IF OrZero(home) + OrZero(away) > OrZero(line) THEN "over" ELSE "under"

\* leaderboard: the two CASE expressions; a comparison with a NULL operand is
\* NULL, which takes the ELSE branch.
SqlWinner(home, away) ==
    IF home # NULL /\ away # NULL /\ home > away THEN "home" ELSE "away"

SqlOuResult(home, away, line) ==
    IF home # NULL /\ away # NULL /\ line # NULL /\ home + away > line
    THEN "over" ELSE "under"

\* ------------------------------------------------------------------------
\* SpecPicks: one game, its feed and its results, and submissions over time.
\* ------------------------------------------------------------------------
Kickoff == 2
PickRecords == GameRecords({1}, {1}, {Kickoff}, {1, 2})
PickEvents == Events({1}, {1}, {1}, BOOLEAN)
Sides == {"home", "away"}
Totals == {"over", "under"}

InitPicks ==
    /\ EmptyDb
    /\ now = 0

IngestOne == \E g \in PickRecords : upsert_games(<<g>>)

ApplyResult == \E ev \in PickEvents : update_scores_with_finals(<<ev>>)

Submit ==
    \E u \in {alice, Bob}, w \in Sides, t \in Totals : make_prediction(u, 1, w, t)

Wait == Tick(MaxTime)

NextPicks == IngestOne \/ ApplyResult \/ Submit \/ Wait

SpecPicks == InitPicks /\ [][NextPicks]_vars

\* The Lock Gate of the specification: now >= kickoff stored for that game.
IsLocked(tbl, gid, t) ==
    \E i \in GameRowsOf(tbl, gid) : tbl[i].start_utc # NULL /\ t >= tbl[i].start_utc

\* C1: a submission made at a time now >= the game's stored kickoff leaves
\* the picks table unchanged: no row is created and an existing one keeps
\* its winner, total and timestamp.
LockedSubmitChangesNothing ==
    [][(last'.op = "make_prediction" /\ IsLocked(games, last'.game_id, last'.at))
          => picks' = picks]_vars

\* C2: after a submission made before the kickoff of its game, the table
\* holds exactly one row for the (user, game) pair and its winner and total
\* are those just submitted.
LastSubmissionWins ==
    (/\ last.op = "make_prediction"
     /\ GameRowsOf(games, last.game_id) # {}
     /\ ~IsLocked(games, last.game_id, last.at))
    => /\ Cardinality(PickRowsOf(picks, last.user, last.game_id)) = 1
       /\ \A i \in PickRowsOf(picks, last.user, last.game_id) :
             /\ picks[i].pick_winner = last.winner
             /\ picks[i].pick_total = last.total

\* C6: a pick on a final game is judged, by profile and by leaderboard,
\* against the over/under line the game had when the pick was stored: the
\* result under the game's present line is the result under that line.
JudgedAgainstLineAtPick ==
    \A i \in Idx(picks) : \A j \in GameRowsOf(games, picks[i].game_id) :
        (games[j].is_final /\ line_at_pick[i].known) =>
            LET h == games[j].final_home_score
                a == games[j].final_away_score
            IN /\ (picks[i].pick_total = SqlOuResult(h, a, games[j].over_under))
                    <=> (picks[i].pick_total = SqlOuResult(h, a, line_at_pick[i].line))
               /\ (h # NULL /\ a # NULL) =>
                    ((picks[i].pick_total = ProfileOuResult(h, a, games[j].over_under))
                      <=> (picks[i].pick_total = ProfileOuResult(h, a, line_at_pick[i].line)))

\* ------------------------------------------------------------------------
\* leaderboard
\* ------------------------------------------------------------------------
\* Rows of picks JOIN games that pass the WHERE clause, for one user.
CorrectJoined(user) ==
    {ij \in Idx(picks) \X Idx(games) :
        LET p == picks[ij[1]]
            g == games[ij[2]]
        IN /\ p.user = user
           /\ ij[2] \in GameRowsOf(games, p.game_id)
           /\ g.is_final
           /\ p.pick_winner = SqlWinner(g.final_home_score, g.final_away_score)
           /\ p.pick_total = SqlOuResult(g.final_home_score, g.final_away_score,
                                         g.over_under)}

\* GROUP BY p.user with COUNT(*): a user without a passing row has no group.
BoardRows ==
    {[user |-> picks[i].user, correct |-> Cardinality(CorrectJoined(picks[i].user))] :
        i \in {k \in Idx(picks) : CorrectJoined(picks[k].user) # {}}}

Orderings(S) ==
    {f \in [1..Cardinality(S) -> S] : \A x \in S : \E i \in DOMAIN f : f[i] = x}

\* ORDER BY correct DESC and nothing else: the engine is free in the order of
\* rows with equal correct.
SortedByCorrect(b) ==
    \A i, j \in DOMAIN b : i < j => b[i].correct >= b[j].correct

leaderboard ==
    /\ \E b \in Orderings(BoardRows) :
          /\ SortedByCorrect(b)
          /\ board' = b
    /\ last' = [NoRequest EXCEPT !.op = "leaderboard", !.at = now]
    /\ UNCHANGED <<games, users, picks, achievements, now, prof, line_at_pick>>

\* ------------------------------------------------------------------------
\* SpecBoard: a week of two games, two users, and the leaderboard.
\* ------------------------------------------------------------------------
WeekBatch ==
    <<[game_id |-> 1, short_name |-> 1, start_utc |-> Kickoff, over_under |-> 1],
      [game_id |-> 2, short_name |-> 2, start_utc |-> Kickoff, over_under |-> 1]>>

InitBoard ==
    /\ EmptyDb
    /\ now = 0

IngestWeek == upsert_games(WeekBatch)

\* The away side wins 0-1 (total 1, not over the line 1) or 0-2 (total 2, over).
ScoreGame == \E ev \in Events({1, 2}, {0}, {1, 2}, {TRUE}) :
                update_scores_with_finals(<<ev>>)

SubmitBoard ==
    \E u \in {alice, Bob}, g \in {1, 2} : make_prediction(u, g, "away", "over")

ShowBoard == leaderboard

NextBoard == IngestWeek \/ ScoreGame \/ SubmitBoard \/ ShowBoard

SpecBoard == InitBoard /\ [][NextBoard]_vars

\* Points of the specification's Scoring Engine for a pick on a final game,
\* each of the two counts judged as the leaderboard query judges it.
Points(p, g) ==
    (IF p.pick_winner = SqlWinner(g.final_home_score, g.final_away_score) THEN 1 ELSE 0)
    + (IF p.pick_total = SqlOuResult(g.final_home_score, g.final_away_score, g.over_under)
       THEN 1 ELSE 0)

RECURSIVE SumPoints(_, _)
SumPoints(user, i) ==
    IF i = 0 THEN 0
    ELSE SumPoints(user, i - 1)
         + (IF picks[i].user = user
               /\ \E j \in GameRowsOf(games, picks[i].game_id) : games[j].is_final
            THEN Points(picks[i],
                        games[CHOOSE j \in GameRowsOf(games, picks[i].game_id) : TRUE])
            ELSE 0)

\* C7: each user's leaderboard total is the sum, over the user's picks on
\* final games, of (1 if the winner is right) + (1 if the total direction is
\* right); a user with a positive sum is on the board.
BoardTotalIsSumOfPoints ==
    last.op = "leaderboard" =>
        /\ \A k \in DOMAIN board :
              board[k].correct = SumPoints(board[k].user, Len(picks))
        /\ \A i \in Idx(picks) :
              SumPoints(picks[i].user, Len(picks)) > 0
                 => \E k \in DOMAIN board : board[k].user = picks[i].user

\* Case-insensitive comparison of usernames.
Lower(c) == IF c >= 65 /\ c <= 90 THEN c + 32 ELSE c

RECURSIVE LowerLess(_, _)
LowerLess(a, b) ==
    IF b = <<>> THEN FALSE
    ELSE IF a = <<>> THEN TRUE
    ELSE IF Lower(Head(a)) # Lower(Head(b)) THEN Lower(Head(a)) < Lower(Head(b))
    ELSE LowerLess(Tail(a), Tail(b))

\* C8: the board is sorted by points descending, and users with equal points
\* are in ascending case-insensitive order of their usernames.
BoardOrderIsDetermined ==
    last.op = "leaderboard" =>
        \A i, j \in DOMAIN board : i < j =>
            \/ board[i].correct > board[j].correct
            \/ /\ board[i].correct = board[j].correct
               /\ LowerLess(board[i].user, board[j].user)

\* ------------------------------------------------------------------------
\* profile
\* ------------------------------------------------------------------------
\* SELECT game_id FROM games ORDER BY start_utc ASC LIMIT 15: the rows the
\* query may return (NULL sorts first; rows with equal start_utc in any order).
TopSets(tbl) ==
    IF Len(tbl) <= TopLimit
    THEN {Idx(tbl)}
    ELSE {S \in SUBSET Idx(tbl) :
            /\ Cardinality(S) = TopLimit
            /\ \A i \in S, j \in Idx(tbl) \ S : tbl[i].start_utc <= tbl[j].start_utc}

\* WHERE p.user=? AND p.game_id IN (top_game_ids)
PicksOfUser(user, top) ==
    {i \in Idx(picks) : /\ picks[i].user = user
                        /\ \E k \in top : k \in GameRowsOf(games, picks[i].game_id)}

\* ORDER BY p.made_at ASC
RECURSIVE ByMadeAt(_)
ByMadeAt(S) ==
    IF S = {} THEN <<>>
    ELSE LET first == CHOOSE i \in S : \A k \in S : picks[i].made_at <= picks[k].made_at
         IN <<first>> \o ByMadeAt(S \ {first})

\* LEFT JOIN games g ON g.game_id = p.game_id
GameOf(i) == games[CHOOSE j \in GameRowsOf(games, picks[i].game_id) : TRUE]

Counters0 == [total_picks |-> 0, wins |-> 0, current_streak |-> 0, last_was_win |-> "None"]

\* One pass of the for loop over a joined pick.
Step(c, p, g) ==
    IF ~g.is_final THEN c
    ELSE IF g.final_home_score = NULL \/ g.final_away_score = NULL
    THEN [c EXCEPT !.total_picks = @ + 1]
    ELSE IF /\ p.pick_winner = ProfileWinner(g.final_home_score, g.final_away_score)
            /\ p.pick_total = ProfileOuResult(g.final_home_score, g.final_away_score,
                                              g.over_under)
    THEN [c EXCEPT !.total_picks = @ + 1, !.wins = @ + 1,
                   !.current_streak = IF c.last_was_win \in {"True", "None"}
                                      THEN @ + 1 ELSE 1,
                   !.last_was_win = "True"]
    ELSE [c EXCEPT !.total_picks = @ + 1, !.current_streak = 0, !.last_was_win = "False"]

RECURSIVE Walk(_, _)
Walk(c, rows) ==
    IF rows = <<>> THEN c
    ELSE Walk(Step(c, picks[Head(rows)], GameOf(Head(rows))), Tail(rows))

\* int((wins / total_picks) * 100); the float product truncates to the integer
\* quotient for every total_picks the query can return (at most TopLimit).
WinRate(c) == IF c.total_picks > 0 THEN (c.wins * 100) \div c.total_picks ELSE 0

\* INSERT with no conflict clause on a table without the UNIQUE constraint.
InsertAlways(tbl, user, badge, at) ==
    Append(tbl, [username |-> user, badge |-> badge, awarded_at |-> at])

\* INSERT OR IGNORE INTO achievements: UNIQUE(username, badge).
InsertOrIgnore(tbl, user, badge, at) ==
    IF \E i \in Idx(tbl) : tbl[i].username = user /\ tbl[i].badge = badge
    THEN tbl
    ELSE Append(tbl, [username |-> user, badge |-> badge, awarded_at |-> at])

Award(tbl, user, c, at) ==
    LET t1 == IF c.current_streak >= Streak5Threshold
              THEN InsertOrIgnore(tbl, user, "Streak5", at) ELSE tbl
    IN IF WinRate(c) >= Win80Rate /\ c.total_picks >= Win80MinPicks
       THEN InsertOrIgnore(t1, user, "Win80", at) ELSE t1

\* badges: the ones just earned, then the stored ones not yet in the list.
RECURSIVE StoredBadges(_, _, _)
StoredBadges(tbl, user, have) ==
    IF tbl = <<>> THEN have
    ELSE StoredBadges(Tail(tbl), user,
            IF Head(tbl).username = user /\ \A k \in DOMAIN have : have[k] # Head(tbl).badge
            THEN Append(have, Head(tbl).badge) ELSE have)

Badges(tbl, user, c) ==
    StoredBadges(tbl, user,
        (IF c.current_streak >= Streak5Threshold THEN <<"Streak5">> ELSE <<>>)
        \o (IF WinRate(c) >= Win80Rate /\ c.total_picks >= Win80MinPicks
            THEN <<"Win80">> ELSE <<>>))

profile(user) ==
    /\ \E top \in TopSets(games) :
          LET c == Walk(Counters0, ByMadeAt(PicksOfUser(user, top)))
          IN /\ achievements' = Award(achievements, user, c, now)
             /\ prof' = [user |-> user, win_rate |-> WinRate(c),
                         current_streak |-> c.current_streak,
                         total_picks |-> c.total_picks, wins |-> c.wins,
                         badges |-> Badges(achievements', user, c)]
    /\ last' = [NoRequest EXCEPT !.op = "profile", !.user = user, !.at = now]
    /\ UNCHANGED <<games, users, picks, now, board, line_at_pick>>

\* ------------------------------------------------------------------------
\* SpecStreak: alice has picked (away, over) on each of five games, one after
\* the other; results come in and she looks at her profile.
\* ------------------------------------------------------------------------
Season == 1..Streak5Threshold

SeasonGames ==
    [g \in Season |->
        [game_id |-> g, short_name |-> g, start_utc |-> Streak5Threshold,
         over_under |-> 1, final_home_score |-> NULL, final_away_score |-> NULL,
         is_final |-> FALSE]]

SeasonPicks ==
    [g \in Season |->
        [user |-> alice, game_id |-> g, pick_winner |-> "away",
         pick_total |-> "over", made_at |-> g - 1]]

InitStreak ==
    /\ games = SeasonGames
    /\ users = <<[username |-> alice, join_date |-> 0]>>
    /\ picks = SeasonPicks
    /\ line_at_pick = [g \in Season |-> [known |-> TRUE, line |-> 1]]
    /\ achievements = <<>>
    /\ board = <<>>
    /\ prof = NoProfile
    /\ last = NoRequest
    /\ now = Streak5Threshold

\* 0-2: away wins and the total 2 is over the line 1; 2-0: home wins;
\* completed without a "score" key (the first two games only, to keep the
\* state space small).
SeasonEvents ==
    Events(Season, {0}, {2}, {TRUE}) \cup Events(Season, {2}, {0}, {TRUE})
    \cup Events({1, 2}, {NULL}, {NULL}, {TRUE})

ScoreSeason == \E ev \in SeasonEvents : update_scores_with_finals(<<ev>>)

ShowProfile == profile(alice)

Later == Tick(Streak5Threshold + 1)

NextStreak == ScoreSeason \/ ShowProfile \/ Later

SpecStreak == InitStreak /\ [][NextStreak]_vars

\* The Scoring Engine of the specification: the result of a pick on a final
\* game is fully correct when the picked side scored strictly more and the
\* total is on the picked side of the line.
FullyCorrect(p, g) ==
    LET h == g.final_home_score
        a == g.final_away_score
    IN /\ h # NULL /\ a # NULL /\ g.over_under # NULL
       /\ \/ p.pick_winner = "home" /\ h > a
          \/ p.pick_winner = "away" /\ a > h
       /\ \/ p.pick_total = "over" /\ h + a > g.over_under
          \/ p.pick_total = "under" /\ h + a < g.over_under

\* Length of the longest suffix of fully-correct results among the picks
\* rows[1..n] that are on final games.
RECURSIVE TrailingRun(_, _)
TrailingRun(rows, n) ==
    IF n = 0 THEN 0
    ELSE IF ~GameOf(rows[n]).is_final THEN TrailingRun(rows, n - 1)
    ELSE IF FullyCorrect(picks[rows[n]], GameOf(rows[n])) THEN 1 + TrailingRun(rows, n - 1)
    ELSE 0

AllPicksOf(user) ==
    {i \in Idx(picks) : picks[i].user = user /\ GameRowsOf(games, picks[i].game_id) # {}}

\* C9: the streak profile reports is the length of the longest suffix of
\* fully-correct results in the user's picks on final games in made_at
\* order; picks on games that are not final neither extend nor break it.
StreakIsTrailingRun ==
    last.op = "profile" =>
        prof.current_streak =
            TrailingRun(ByMadeAt(AllPicksOf(prof.user)), Cardinality(AllPicksOf(prof.user)))

BadgeRows(tbl, user, badge) ==
    {i \in Idx(tbl) : tbl[i].username = user /\ tbl[i].badge = badge}

\* C10: whatever the number of profile evaluations, achievements holds at
\* most one row per (user, badge), exactly one Streak5 row for a user whose
\* streak is >= 5, and an evaluation that finds the badge stored leaves the
\* stored rows as they are.
AwardIsIdempotent ==
    [][last'.op = "profile" =>
        /\ \A i, j \in Idx(achievements') :
              (/\ achievements'[i].username = achievements'[j].username
               /\ achievements'[i].badge = achievements'[j].badge) => i = j
        /\ prof'.current_streak >= Streak5Threshold
              => Cardinality(BadgeRows(achievements', prof'.user, "Streak5")) = 1
        /\ SubSeq(achievements', 1, Len(achievements)) = achievements
        /\ BadgeRows(achievements, prof'.user, "Streak5") # {}
              => achievements' = achievements]_vars

\* A second evaluation with a streak of five, after the badge was stored.
AwardIsIdempotentWitness ==
    /\ last.op = "profile"
    /\ prof.current_streak >= Streak5Threshold
    /\ \E i \in BadgeRows(achievements, prof.user, "Streak5") :
          achievements[i].awarded_at < last.at

\* ------------------------------------------------------------------------
\* SpecTie: one game with the line 2 that ends 0-2 (total on the line) or
\* 0-3 (total over it), picks of both directions, and both read paths.
\* ------------------------------------------------------------------------
TieLine == 2

TieGame == [game_id |-> 1, short_name |-> 1, start_utc |-> Kickoff, over_under |-> TieLine]

InitTie ==
    /\ EmptyDb
    /\ now = 0

IngestTie == upsert_games(<<TieGame>>)

ScoreTie == \E ev \in Events({1}, {0}, {TieLine, TieLine + 1}, {TRUE}) :
               update_scores_with_finals(<<ev>>)

SubmitTie == \E u \in {alice, Bob}, t \in Totals : make_prediction(u, 1, "away", t)

ShowTieBoard == leaderboard

ShowTieProfile == profile(alice)

NextTie == IngestTie \/ ScoreTie \/ SubmitTie \/ ShowTieBoard \/ ShowTieProfile

SpecTie == InitTie /\ [][NextTie]_vars

\* The total rule of the specification: over is right only when the total is
\* above the line, under only when it is below; a total on the line credits
\* neither.
TotalRight(p, g) ==
    LET total == g.final_home_score + g.final_away_score
    IN \/ p.pick_total = "over" /\ total > g.over_under
       \/ p.pick_total = "under" /\ total < g.over_under

\* Picks of a user on scored final games with the winner right and the total
\* right by that rule.
RightPicks(user) ==
    {i \in Idx(picks) :
        /\ picks[i].user = user
        /\ \E j \in GameRowsOf(games, picks[i].game_id) :
              /\ games[j].is_final
              /\ games[j].final_home_score # NULL
              /\ games[j].final_away_score # NULL
              /\ games[j].over_under # NULL
              /\ picks[i].pick_winner
                    = SqlWinner(games[j].final_home_score, games[j].final_away_score)
              /\ TotalRight(picks[i], games[j])}

\* C11: on a final game whose combined score equals the line, neither an over
\* nor an under pick is judged right on the total: the picks leaderboard
\* counts for a user, and the wins profile counts, are the picks whose total
\* is strictly on the picked side of the line.
TieCreditsNeither ==
    /\ last.op = "leaderboard" =>
          \A k \in DOMAIN board :
              board[k].correct = Cardinality(RightPicks(board[k].user))
    /\ last.op = "profile" => prof.wins = Cardinality(RightPicks(prof.user))

====
